---- MODULE Spec2Model ----
(***************************************************************************)
(* Model of src/server.js: an Express application that keeps a list of     *)
(* task records in process memory and serves list, get, create, update,    *)
(* delete and statistics requests over it.                                 *)
(*                                                                         *)
(* JavaScript strings are sequences of one-character strings, so that      *)
(* String.prototype.trim, String.prototype.toLowerCase and parseInt are    *)
(* computed character by character.  Timestamps (new Date().toISOString()) *)
(* are the millisecond reading of the clock they are formatted from.       *)
(***************************************************************************)
EXTENDS Integers, Sequences, FiniteSets, TLC

\* ------------------------------------------------------------------ bounds
\* Number of requests served in one run.
MaxRequests == 2
\* Last millisecond of the clock.
MaxTime == 1

\* ----------------------------------------------------------------- strings
WhiteSpace == {" ", "\t", "\n", "\r"}

\* The lower-case letter of every upper-case letter.
LowerOf ==
  ("A" :> "a") @@ ("B" :> "b") @@ ("C" :> "c") @@ ("D" :> "d") @@
  ("E" :> "e") @@ ("F" :> "f") @@ ("G" :> "g") @@ ("H" :> "h") @@
  ("I" :> "i") @@ ("J" :> "j") @@ ("K" :> "k") @@ ("L" :> "l") @@
  ("M" :> "m") @@ ("N" :> "n") @@ ("O" :> "o") @@ ("P" :> "p") @@
  ("Q" :> "q") @@ ("R" :> "r") @@ ("S" :> "s") @@ ("T" :> "t") @@
  ("U" :> "u") @@ ("V" :> "v") @@ ("W" :> "w") @@ ("X" :> "x") @@
  ("Y" :> "y") @@ ("Z" :> "z")

LowerChar(c) == IF c \in DOMAIN LowerOf THEN LowerOf[c] ELSE c

\* String.prototype.toLowerCase
toLowerCase(s) == [i \in DOMAIN s |-> LowerChar(s[i])]

\* String.prototype.trim
RECURSIVE trimStart(_)
trimStart(s) ==
  IF s # <<>> /\ Head(s) \in WhiteSpace THEN trimStart(Tail(s)) ELSE s

RECURSIVE trimEnd(_)
trimEnd(s) ==
  IF s # <<>> /\ s[Len(s)] \in WhiteSpace THEN trimEnd(SubSeq(s, 1, Len(s) - 1))
  ELSE s

trim(s) == trimEnd(trimStart(s))

\* The value of every digit parseInt reads, up to radix 16.
DigitOf ==
  ("0" :> 0) @@ ("1" :> 1) @@ ("2" :> 2) @@ ("3" :> 3) @@ ("4" :> 4) @@
  ("5" :> 5) @@ ("6" :> 6) @@ ("7" :> 7) @@ ("8" :> 8) @@ ("9" :> 9) @@
  ("a" :> 10) @@ ("b" :> 11) @@ ("c" :> 12) @@ ("d" :> 13) @@ ("e" :> 14) @@
  ("f" :> 15) @@ ("A" :> 10) @@ ("B" :> 11) @@ ("C" :> 12) @@ ("D" :> 13) @@
  ("E" :> 14) @@ ("F" :> 15)

IsDigit(c, radix) == c \in DOMAIN DigitOf /\ DigitOf[c] < radix

NaN == [nan |-> TRUE, n |-> 0]
Number(n) == [nan |-> FALSE, n |-> n]

\* The longest prefix of digits of s, converted; NaN when it is empty.
RECURSIVE parseDigits(_, _, _, _)
parseDigits(s, radix, value, seen) ==
  IF s # <<>> /\ IsDigit(Head(s), radix)
  THEN parseDigits(Tail(s), radix, value * radix + DigitOf[Head(s)], TRUE)
  ELSE IF seen THEN Number(value) ELSE NaN

\* parseInt(string) with no radix argument: leading white space is skipped,
\* a sign is read, a 0x prefix selects radix 16, and the longest prefix of
\* digits is converted.
parseInt(s) ==
  LET t      == trimStart(s)
      signed == t # <<>> /\ Head(t) \in {"+", "-"}
      u      == IF signed THEN Tail(t) ELSE t
      hex    == Len(u) >= 2 /\ u[1] = "0" /\ u[2] \in {"x", "X"}
      m      == IF hex THEN parseDigits(SubSeq(u, 3, Len(u)), 16, 0, FALSE)
                ELSE parseDigits(u, 10, 0, FALSE)
  IN  IF signed /\ Head(t) = "-" /\ ~m.nan THEN Number(-m.n) ELSE m

\* ------------------------------------------------------------ JSON values
\* A value of a request body or of the query string.
Undefined == [type |-> "undefined", str |-> <<>>, num |-> 0]
Null      == [type |-> "object", str |-> <<>>, num |-> 0]
Str(s)    == [type |-> "string", str |-> s, num |-> 0]
Num(n)    == [type |-> "number", str |-> <<>>, num |-> n]
\* req.query.x for ?x=..&x=.. : an array, which has no toLowerCase
Arr       == [type |-> "array", str |-> <<>>, num |-> 0]

IsString(v) == v.type = "string"

\* JavaScript truthiness, as tested by `!x`, `if (x)` and `x && ...`
Truthy(v) ==
  CASE v.type = "string" -> v.str # <<>>
    [] v.type = "number" -> v.num # 0
    [] v.type = "array"  -> TRUE
    [] OTHER             -> FALSE

\* ------------------------------------------------------------- enumerations
pending    == <<"p", "e", "n", "d", "i", "n", "g">>
inProgress == <<"i", "n", "-", "p", "r", "o", "g", "r", "e", "s", "s">>
completed  == <<"c", "o", "m", "p", "l", "e", "t", "e", "d">>
low        == <<"l", "o", "w">>
medium     == <<"m", "e", "d", "i", "u", "m">>
high       == <<"h", "i", "g", "h">>

Statuses   == {pending, inProgress, completed}
Priorities == {low, medium, high}

\* ------------------------------------------------------------------- state
VARIABLES
  tasks,    \* the in-memory list of task records (let tasks)
  nextId,   \* the id the next created task gets (let nextId)
  now,      \* the reading of the clock, in milliseconds (new Date())
  served,   \* number of requests served so far
  req,      \* the request served last
  res,      \* the response sent to it
  issued,   \* history: the ids of the tasks returned by 201 responses, in order
  deleted   \* history: the ids of the tasks returned by DELETE 200 responses

vars == <<tasks, nextId, now, served, req, res, issued, deleted>>

InitialNextId == 3

Task(id, title, description, status, priority, createdAt, updatedAt) ==
  [id |-> id, title |-> title, description |-> description, status |-> status,
   priority |-> priority, createdAt |-> createdAt, updatedAt |-> updatedAt]

SeedTasks(t1, t2, t3, t4) ==
  << Task(1,
          <<"L", "e", "a", "r", "n", " ", "N", "o", "d", "e", ".", "j", "s">>,
          <<"C", "o", "m", "p", "l", "e", "t", "e", " ", "N", "o", "d", "e", ".",
            "j", "s", " ", "t", "u", "t", "o", "r", "i", "a", "l">>,
          pending, high, t1, t2),
     Task(2,
          <<"B", "u", "i", "l", "d", " ", "A", "P", "I">>,
          <<"C", "r", "e", "a", "t", "e", " ", "R", "E", "S", "T", " ", "A", "P",
            "I", " ", "f", "o", "r", " ", "t", "a", "s", "k", " ", "m", "a", "n",
            "a", "g", "e", "m", "e", "n", "t">>,
          inProgress, medium, t3, t4) >>

\* ---------------------------------------------------------------- requests
NoBody  == [title |-> Undefined, description |-> Undefined,
            status |-> Undefined, priority |-> Undefined]
NoQuery == [status |-> Undefined, priority |-> Undefined]

Body(title, description, status, priority) ==
  [title |-> title, description |-> description,
   status |-> status, priority |-> priority]

Request(op, id, body, query) ==
  [op |-> op, id |-> id, body |-> body, query |-> query]

NoRequest == Request("none", <<>>, NoBody, NoQuery)

\* res.status(code).json({success, count, data}); data holds the task or the
\* tasks of the answer, stats the statistics object when there is one; count
\* is -1 when the answer has no count.
Response(code, count, data, stats) ==
  [code |-> code, success |-> code < 400, count |-> count, data |-> data,
   stats |-> stats]

NoResponse == Response(0, -1, <<>>, <<>>)

\* The :id route parameters the requests use.
IdParams ==
  { <<"1">>, <<"0", "x", "2">>, <<"3">>, <<" ", "4", "x">>, <<"a", "b", "c">> }

\* The bodies POST /api/tasks is sent.
CreateBodies ==
  { Body(Str(<<" ", "a", " ">>), Str(<<"b">>), Undefined, Undefined),
    Body(Str(<<"A">>), Str(<<"\t", "b", " ">>), Undefined, Str(<<"H", "i", "g", "h">>)),
    Body(Str(<<"A">>), Str(<<"b">>), Str(completed), Str(<<"L", "O", "W">>)),
    Body(Str(<<" ">>), Str(<<"b">>), Undefined, Undefined),
    Body(Str(<<"A">>), Str(<<" ", "\t">>), Undefined, Undefined),
    Body(Str(<<"A">>), Undefined, Undefined, Undefined),
    Body(Str(<<>>), Str(<<"b">>), Undefined, Str(low)),
    Body(Str(<<"A">>), Str(<<"b">>), Undefined, Str(<<"u", "r", "g", "e", "n", "t">>)),
    Body(Str(<<"A">>), Str(<<"b">>), Undefined, Str(<<>>)),
    Body(Str(<<"A">>), Str(<<"b">>), Undefined, Null),
    Body(Num(5), Str(<<"b">>), Undefined, Undefined) }

\* The bodies PUT /api/tasks/:id is sent.
UpdateBodies ==
  { NoBody,
    Body(Str(<<>>), Str(<<>>), Str(<<>>), Str(<<>>)),
    Body(Num(0), Null, Null, Num(0)),
    Body(Str(<<" ", "a", " ">>), Undefined, Undefined, Undefined),
    Body(Str(<<" ">>), Str(<<"\t">>), Undefined, Undefined),
    Body(Undefined, Undefined, Str(<<"C", "o", "m", "p", "l", "e", "t", "e", "d">>), Undefined),
    Body(Undefined, Undefined, Str(<<"I", "N", "-", "P", "R", "O", "G", "R", "E", "S", "S">>),
         Str(<<"L", "o", "w">>)),
    Body(Undefined, Undefined, Undefined, Str(<<"H", "I", "G", "H">>)),
    Body(Str(<<" ", "a", " ">>), Undefined, Str(<<"d", "o", "n", "e">>), Undefined),
    Body(Undefined, Str(<<"b">>), Undefined, Str(<<"u", "r", "g", "e", "n", "t">>)),
    Body(Str(<<" ", "a", " ">>), Num(5), Undefined, Undefined),
    Body(Undefined, Undefined, Num(5), Undefined),
    Body(Num(5), Undefined, Undefined, Str(low)) }

\* The query strings GET /api/tasks is sent.
Queries ==
  { NoQuery,
    [status |-> Str(<<"P", "E", "N", "D", "I", "N", "G">>), priority |-> Undefined],
    [status |-> Undefined, priority |-> Str(<<"H", "i", "g", "h">>)],
    [status |-> Str(<<"I", "n", "-", "P", "r", "o", "g", "r", "e", "s", "s">>),
     priority |-> Str(<<"M", "E", "D", "I", "U", "M">>)],
    [status |-> Str(completed), priority |-> Str(low)],
    [status |-> Str(<<>>), priority |-> Undefined],
    [status |-> Str(<<>>), priority |-> Str(high)],
    [status |-> Str(pending), priority |-> Str(<<>>)],
    [status |-> Str(<<"d", "o", "n", "e">>), priority |-> Undefined],
    [status |-> Arr, priority |-> Undefined] }

\* ------------------------------------------------------------------ helpers
\* tasks.findIndex(task => task.id === parseInt(id)); 0 when there is none
\* (the -1 of findIndex), else the first matching position.
findIndex(list, id) ==
  LET n     == parseInt(id)
      match == {i \in DOMAIN list : ~n.nan /\ list[i].id = n.n}
  IN  IF match = {} THEN 0 ELSE CHOOSE i \in match : \A j \in match : i <= j

\* Variant: `task.id = parseInt(id)` for `===`, which finds the first task
\* whenever the parameter parses to a number other than 0.
findTaskByIdAssigning(list, id) ==
  IF list # <<>> /\ ~parseInt(id).nan /\ parseInt(id).n # 0 THEN 1 ELSE 0

\* tasks.find(task => task.id === parseInt(id)): the position of the task
\* found, 0 for undefined.  The handlers mutate the task at that position.
findTaskById(list, id) == findIndex(list, id)

\* Variant: tasks.slice(index, 1), which leaves the list as it is.
sliceOnly(list, index) == list

\* tasks.splice(index, 1)
splice(list, index) ==
  SubSeq(list, 1, index - 1) \o SubSeq(list, index + 1, Len(list))

\* What a handler leaves behind: the response sent and the request recorded.
Reply(request, response) ==
  /\ req' = request
  /\ res' = response
  /\ served' = served + 1

\* ---------------------------------------------------------------- handlers
\* GET /api/tasks
\* Variant: task.status === status, without toLowerCase.
sameExactly(stored, given) == stored = given

\* task.status.toLowerCase() === status.toLowerCase()
sameIgnoringCase(stored, given) == toLowerCase(stored) = toLowerCase(given)

ListResponse(list, query) ==
  LET status    == query.status
      priority  == query.priority
      byStatus(task)   == sameIgnoringCase(task.status, status.str)
      byPriority(task) == sameIgnoringCase(task.priority, priority.str)
      \* a filter that is no string has no toLowerCase: the callback throws
      \* on the first task it is called with
      filtered1 == IF Truthy(status) /\ IsString(status)
                   THEN SelectSeq(list, byStatus) ELSE list
      throws    == \/ Truthy(status) /\ ~IsString(status) /\ list # <<>>
                   \/ Truthy(priority) /\ ~IsString(priority) /\ filtered1 # <<>>
      filtered2 == IF Truthy(priority) /\ IsString(priority)
                   THEN SelectSeq(filtered1, byPriority) ELSE filtered1
  IN  IF throws THEN Response(500, -1, <<>>, <<>>)
      ELSE Response(200, Len(filtered2), filtered2, <<>>)

ListTasks(query) ==
  /\ served < MaxRequests
  /\ Reply(Request("list", <<>>, NoBody, query), ListResponse(tasks, query))
  /\ UNCHANGED <<tasks, nextId, now, issued, deleted>>

\* GET /api/tasks/:id
GetResponse(list, id) ==
  LET task == findTaskById(list, id)
  IN  IF task = 0 THEN Response(404, -1, <<>>, <<>>)
      ELSE Response(200, -1, <<list[task]>>, <<>>)

GetTask(id) ==
  /\ served < MaxRequests
  /\ Reply(Request("get", id, NoBody, NoQuery), GetResponse(tasks, id))
  /\ UNCHANGED <<tasks, nextId, now, issued, deleted>>

\* POST /api/tasks
\* Variant: `id: nextId`, the counter is never advanced.
incrementMissing(id) == id

\* Variant: `priority: priority`, stored as sent.
newTaskPriorityAsSent(id, title, description, priority, createdAt, updatedAt) ==
  [id |-> id, title |-> trim(title), description |-> trim(description),
   status |-> pending, priority |-> priority, createdAt |-> createdAt,
   updatedAt |-> updatedAt]

\* nextId++ : the value the counter is left with
increment(id) == id + 1

newTask(id, title, description, priority, createdAt, updatedAt) ==
  Task(id, trim(title), trim(description), pending, toLowerCase(priority),
       createdAt, updatedAt)

CreateTask(body) ==
  LET request     == Request("create", <<>>, body, NoQuery)
      title       == body.title
      description == body.description
      priority    == IF body.priority = Undefined THEN Str(medium)
                     ELSE body.priority
  IN
  /\ served < MaxRequests
  /\ IF ~Truthy(title) \/ ~Truthy(description)
     THEN /\ Reply(request, Response(400, -1, <<>>, <<>>))
          /\ UNCHANGED <<tasks, nextId, now, issued, deleted>>
     ELSE IF ~IsString(priority)
     THEN \* priority.toLowerCase is not a function: the error middleware answers
          /\ Reply(request, Response(500, -1, <<>>, <<>>))
          /\ UNCHANGED <<tasks, nextId, now, issued, deleted>>
     ELSE IF toLowerCase(priority.str) \notin Priorities
     THEN /\ Reply(request, Response(400, -1, <<>>, <<>>))
          /\ UNCHANGED <<tasks, nextId, now, issued, deleted>>
     ELSE IF ~IsString(title) \/ ~IsString(description)
     THEN \* nextId++ is evaluated before title.trim() throws
          /\ nextId' = increment(nextId)
          /\ Reply(request, Response(500, -1, <<>>, <<>>))
          /\ UNCHANGED <<tasks, now, issued, deleted>>
     ELSE \* createdAt and updatedAt are two readings of the clock
          \E later \in now..MaxTime :
            LET task == newTask(nextId, title.str, description.str,
                                priority.str, now, later)
            IN  /\ nextId' = increment(nextId)
                /\ now' = later
                /\ tasks' = Append(tasks, task)
                /\ issued' = Append(issued, task.id)
                /\ Reply(request, Response(201, -1, <<task>>, <<>>))
                /\ UNCHANGED deleted

\* PUT /api/tasks/:id
\* Variant: the check of the status is left out.
validStatusMissing(status) == TRUE

validStatus(status) ==
  ~Truthy(status) \/ toLowerCase(status.str) \in Statuses

validPriority(priority) ==
  ~Truthy(priority) \/ toLowerCase(priority.str) \in Priorities

\* Variant: `if (title !== undefined)`, which assigns an empty title too.
withTitleIfDefined(task, title) ==
  IF IsString(title) THEN [task EXCEPT !.title = trim(title.str)] ELSE task

\* Variant: `task.status = status`, stored as sent.
withStatusAsSent(task, status) ==
  IF Truthy(status) THEN [task EXCEPT !.status = status.str] ELSE task

\* The assignments of the handler, in their order; a field is assigned when
\* the value sent for it is truthy.
withTitle(task, title) ==
  IF Truthy(title) THEN [task EXCEPT !.title = trim(title.str)] ELSE task

withDescription(task, description) ==
  IF Truthy(description) THEN [task EXCEPT !.description = trim(description.str)]
  ELSE task

withStatus(task, status) ==
  IF Truthy(status) THEN [task EXCEPT !.status = toLowerCase(status.str)] ELSE task

withPriority(task, priority) ==
  IF Truthy(priority) THEN [task EXCEPT !.priority = toLowerCase(priority.str)]
  ELSE task

withUpdatedAt(task, time) == [task EXCEPT !.updatedAt = time]

\* The code the validation of the handler ends with: 200 when it passes,
\* 400 when it answers, 500 when a value sent is no string and toLowerCase
\* throws.
validation(body) ==
  IF Truthy(body.status) /\ ~IsString(body.status) THEN 500
  ELSE IF ~validStatus(body.status) THEN 400
  ELSE IF Truthy(body.priority) /\ ~IsString(body.priority) THEN 500
  ELSE IF ~validPriority(body.priority) THEN 400
  ELSE 200

\* The assignments to the task found, made at time `time`: trim throws on a
\* truthy title or description that is no string, and the assignments made
\* before it stay.
assignment(task, body, time) ==
  IF Truthy(body.title) /\ ~IsString(body.title)
  THEN [code |-> 500, task |-> task]
  ELSE IF Truthy(body.description) /\ ~IsString(body.description)
  THEN [code |-> 500, task |-> withTitle(task, body.title)]
  ELSE [code |-> 200,
        task |-> withUpdatedAt(
                   withPriority(
                     withStatus(
                       withDescription(withTitle(task, body.title),
                                       body.description),
                       body.status),
                     body.priority),
                   time)]

\* Variant: the fields are assigned before the status and the priority are
\* validated.
updateOutcomeAssigningFirst(list, time, id, body) ==
  LET task == findTaskById(list, id)
  IN  IF task = 0 THEN [code |-> 404, tasks |-> list, data |-> <<>>]
      ELSE LET done == assignment(list[task],
                                  [body EXCEPT !.status = Undefined,
                                               !.priority = Undefined], time)
           IN  IF validation(body) # 200
               THEN [code  |-> validation(body),
                     tasks |-> [list EXCEPT ![task] = done.task],
                     data  |-> <<>>]
               ELSE [code  |-> 200,
                     tasks |-> [list EXCEPT ![task] =
                                  assignment(list[task], body, time).task],
                     data  |-> <<assignment(list[task], body, time).task>>]

\* The handler on the list: the code answered, the list left, the task sent.
updateOutcome(list, time, id, body) ==
  LET task == findTaskById(list, id)
  IN  IF task = 0 THEN [code |-> 404, tasks |-> list, data |-> <<>>]
      ELSE IF validation(body) # 200
      THEN [code |-> validation(body), tasks |-> list, data |-> <<>>]
      ELSE LET done == assignment(list[task], body, time)
           IN  [code  |-> done.code,
                tasks |-> [list EXCEPT ![task] = done.task],
                data  |-> IF done.code = 200 THEN <<done.task>> ELSE <<>>]

UpdateTask(id, body) ==
  LET outcome == updateOutcome(tasks, now, id, body)
  IN  /\ served < MaxRequests
      /\ tasks' = outcome.tasks
      /\ Reply(Request("update", id, body, NoQuery),
               Response(outcome.code, -1, outcome.data, <<>>))
      /\ UNCHANGED <<nextId, now, issued, deleted>>

\* DELETE /api/tasks/:id
DeleteTask(id) ==
  LET request   == Request("delete", id, NoBody, NoQuery)
      taskIndex == findIndex(tasks, id)
  IN
  /\ served < MaxRequests
  /\ IF taskIndex = 0
     THEN /\ Reply(request, Response(404, -1, <<>>, <<>>))
          /\ UNCHANGED <<tasks, nextId, now, issued, deleted>>
     ELSE /\ tasks' = splice(tasks, taskIndex)
          /\ deleted' = deleted \cup {tasks[taskIndex].id}
          /\ Reply(request, Response(200, -1, <<tasks[taskIndex]>>, <<>>))
          /\ UNCHANGED <<nextId, now, issued>>

\* GET /api/stats
StatsOf(list) ==
  LET isPending(t)    == t.status = pending
      isInProgress(t) == t.status = inProgress
      isCompleted(t)  == t.status = completed
      isHigh(t)       == t.priority = high
      isMedium(t)     == t.priority = medium
      isLow(t)        == t.priority = low
  IN  [total      |-> Len(list),
       pending    |-> Len(SelectSeq(list, isPending)),
       inProgress |-> Len(SelectSeq(list, isInProgress)),
       completed  |-> Len(SelectSeq(list, isCompleted)),
       byPriority |-> [high   |-> Len(SelectSeq(list, isHigh)),
                       medium |-> Len(SelectSeq(list, isMedium)),
                       low    |-> Len(SelectSeq(list, isLow))]]

GetStats ==
  /\ served < MaxRequests
  /\ Reply(Request("stats", <<>>, NoBody, NoQuery),
           Response(200, -1, <<>>, <<StatsOf(tasks)>>))
  /\ UNCHANGED <<tasks, nextId, now, issued, deleted>>

\* GET /health
Health ==
  /\ served < MaxRequests
  /\ Reply(Request("health", <<>>, NoBody, NoQuery), Response(200, -1, <<>>, <<>>))
  /\ UNCHANGED <<tasks, nextId, now, issued, deleted>>

\* app.use('*'): any other route
RouteNotFound ==
  /\ served < MaxRequests
  /\ Reply(Request("other", <<>>, NoBody, NoQuery), Response(404, -1, <<>>, <<>>))
  /\ UNCHANGED <<tasks, nextId, now, issued, deleted>>

\* The clock advances by a millisecond between two requests.
Tick ==
  /\ now < MaxTime
  /\ now' = now + 1
  /\ UNCHANGED <<tasks, nextId, served, req, res, issued, deleted>>

\* ------------------------------------------------------------ specification
\* The module is loaded: time is counted from the millisecond of the load,
\* in which the four timestamps of the seed tasks are read.
Init ==
  /\ tasks = SeedTasks(0, 0, 0, 0)
  /\ now = 0
  /\ nextId = InitialNextId
  /\ served = 0
  /\ req = NoRequest
  /\ res = NoResponse
  /\ issued = <<>>
  /\ deleted = {}

Next ==
  \/ \E query \in Queries : ListTasks(query)
  \/ \E id \in IdParams : GetTask(id)
  \/ \E body \in CreateBodies : CreateTask(body)
  \/ \E id \in IdParams : \E body \in UpdateBodies : UpdateTask(id, body)
  \/ \E id \in IdParams : DeleteTask(id)
  \/ GetStats
  \/ Health
  \/ RouteNotFound
  \/ Tick

Spec == Init /\ [][Next]_vars

\* ------------------------------------------------------------------ claims
Ids(list) == {list[i].id : i \in DOMAIN list}

IsCreated == req.op = "create" /\ res.code = 201
Created   == res.data[1]

Trimmed(s) == s # <<>> /\ s[1] \notin WhiteSpace /\ s[Len(s)] \notin WhiteSpace

\* C2: every task of the list has a title and a description that are not
\* empty and neither start nor end with white space.
TitlesAndDescriptionsTrimmedNonEmpty ==
  \A i \in DOMAIN tasks : Trimmed(tasks[i].title) /\ Trimmed(tasks[i].description)

\* C3: every task of the list has one of the three statuses and one of the
\* three priorities, in lower case.
StatusAndPriorityEnumerated ==
  \A i \in DOMAIN tasks :
    /\ tasks[i].status \in {pending, inProgress, completed}
    /\ tasks[i].priority \in {low, medium, high}

\* An update sent a status and a priority in upper case and succeeded.
UpperCaseValuesStored ==
  /\ req.op = "update" /\ res.code = 200
  /\ IsString(req.body.status) /\ req.body.status.str \notin Statuses
  /\ IsString(req.body.priority) /\ req.body.priority.str \notin Priorities
  /\ res.data[1] \in {tasks[i] : i \in DOMAIN tasks}

NothingSupplied(body) ==
  \A f \in {"title", "description", "status", "priority"} :
    \/ body[f] = Undefined
    \/ body[f] = Null
    \/ body[f] = Str(<<>>)
    \/ body[f] = Num(0)

\* C4: a successful update whose body supplies no field, or only falsy
\* values, sets updatedAt of its task to the time of the request and changes
\* nothing else: not another field of the task, not another task, not the
\* id counter.
EmptyUpdateOnlyRefreshes ==
  [][ (/\ served' = served + 1
       /\ req'.op = "update" /\ res'.code = 200
       /\ NothingSupplied(req'.body))
      => \E i \in DOMAIN tasks :
           /\ tasks[i].id = parseInt(req'.id).n
           /\ tasks' = [tasks EXCEPT ![i].updatedAt = now]
           /\ res'.data = <<tasks'[i]>>
           /\ nextId' = nextId ]_vars

\* An update with nothing supplied succeeded on a task last written earlier.
EmptyUpdateRefreshed ==
  /\ req.op = "update" /\ res.code = 200
  /\ NothingSupplied(req.body)
  /\ res.data[1].updatedAt > res.data[1].createdAt
  /\ req.body # NoBody

\* C5: the task of a successful creation has status pending and the priority
\* sent, in lower case, or medium when none was sent, whatever else the body
\* holds.
CreatedPendingWithPriority ==
  IsCreated =>
    /\ Created.status = pending
    /\ Created.priority \in {low, medium, high}
    /\ Created.priority = IF req.body.priority = Undefined THEN medium
                          ELSE toLowerCase(req.body.priority.str)
    /\ tasks[Len(tasks)] = Created

\* A creation that sent a status and a priority in mixed case succeeded.
CreatedWithStatusSent ==
  /\ IsCreated
  /\ req.body.status = Str(completed)
  /\ IsString(req.body.priority) /\ req.body.priority.str \notin Priorities

\* The decimal digits of a natural number: the id of a task as it is
\* written into the path of a request.
RECURSIVE toString(_)
toString(n) ==
  LET digit == <<"0", "1", "2", "3", "4", "5", "6", "7", "8", "9">>[(n % 10) + 1]
  IN  IF n < 10 THEN <<digit>> ELSE Append(toString(n \div 10), digit)

\* C6: once a delete of an id has succeeded, a get of a parameter that reads
\* as this id is answered 404, in the state the delete leaves and in every
\* later state.
DeletedStaysNotFound ==
  /\ \A id \in IdParams \cup {toString(n) : n \in deleted} :
       (~parseInt(id).nan /\ parseInt(id).n \in deleted)
         => GetResponse(tasks, id) = Response(404, -1, <<>>, <<>>)
  /\ (req.op = "get" /\ ~parseInt(req.id).nan /\ parseInt(req.id).n \in deleted)
       => res.code = 404 /\ ~res.success

\* A get of a deleted id was answered.
GetAfterDelete ==
  req.op = "get" /\ ~parseInt(req.id).nan /\ parseInt(req.id).n \in deleted

StatsConsistent(stats, list) ==
  /\ stats.total = Len(list)
  /\ stats.pending + stats.inProgress + stats.completed = stats.total
  /\ stats.byPriority.high + stats.byPriority.medium + stats.byPriority.low
       = stats.total
  /\ list = <<>> =>
       /\ stats.total = 0
       /\ stats.pending = 0 /\ stats.inProgress = 0 /\ stats.completed = 0
       /\ stats.byPriority.high = 0 /\ stats.byPriority.medium = 0
       /\ stats.byPriority.low = 0

\* C7: the statistics of the list have total equal to its length, statuses
\* that add up to total and priorities that add up to total, all zero over
\* the empty list; so has every answer to a statistics request.
StatsAddUp ==
  /\ StatsConsistent(StatsOf(tasks), tasks)
  /\ req.op = "stats" =>
       /\ res.code = 200
       /\ StatsConsistent(res.stats[1], tasks)

\* Statistics were asked for after an update changed a status.
StatsAfterStatusChange ==
  /\ req.op = "stats"
  /\ res.stats[1].completed = 1
  /\ res.stats[1].total = 2

\* C8: the task a successful creation returns is what a get of its id
\* returns in the state the creation leaves.
GetAfterCreateEqual ==
  IsCreated =>
    GetResponse(tasks, toString(Created.id)) = Response(200, -1, <<Created>>, <<>>)

\* A creation succeeded and its id is written with the digits of the
\* counter it was issued from.
CreatedAndReadable ==
  /\ IsCreated
  /\ parseInt(toString(Created.id)) = Number(nextId - 1)
  /\ Len(tasks) > 1

IsFilter(value) == IsString(value) /\ value.str # <<>>

StringOrAbsent(value) == IsString(value) \/ value = Undefined

\* The tasks of the list whose status and priority are the filters given,
\* compared in lower case; an empty string is a filter when emptyIsFilter.
Selected(list, query, emptyIsFilter) ==
  LET given(value)  == IsString(value) /\ (emptyIsFilter \/ value.str # <<>>)
      matches(task) ==
        /\ given(query.status)
             => toLowerCase(task.status) = toLowerCase(query.status.str)
        /\ given(query.priority)
             => toLowerCase(task.priority) = toLowerCase(query.priority.str)
  IN  SelectSeq(list, matches)

IsRejection(request, response) ==
  \/ request.op = "create" /\ response.code = 400
  \/ request.op = "update" /\ response.code \in {400, 404}
  \/ request.op = "delete" /\ response.code = 404
  \/ request.op = "get" /\ response.code = 404

\* C10: a create answered 400, an update answered 404 or 400, a delete
\* answered 404 and a get answered 404 leave the list and the id counter as
\* they were.
RejectionChangesNothing ==
  [][ (served' = served + 1 /\ IsRejection(req', res'))
      => tasks' = tasks /\ nextId' = nextId ]_vars

\* An update that sent a title to assign and a status that is not one of
\* the three was answered 400.
UpdateRejectedWithTitle ==
  /\ req.op = "update" /\ res.code = 400
  /\ Truthy(req.body.title)
  /\ IsString(req.body.status) /\ toLowerCase(req.body.status.str) \notin Statuses

====
